---- MODULE Spec2Model ----
(***************************************************************************)
(* Model of the dynamic schema synchronisation and upsert engine of        *)
(* services/supabase_service.py: the per-tenant pool registry              *)
(* (ConnectionPool), the query executor (execute_query) and the upsert     *)
(* orchestrator (upsert_data) with its helpers.                            *)
(*                                                                         *)
(* Each upsert call is an asyncio task.  A step of the model is the code   *)
(* that runs between two awaits that really suspend: pool creation,        *)
(* connection acquisition, statement execution, the reload notification,   *)
(* connection release and the settle sleep.  The REST client calls         *)
(* (get_client_connection, the final write) are synchronous.               *)
(***************************************************************************)
EXTENDS Integers, Sequences, FiniteSets, TLC

(* ----------------------------- bounds ---------------------------------- *)
\* cap on the number of pools asyncpg.create_pool hands out in one run
MaxPools == 2
\* largest row count the write primitive reports back
MaxRows == 2
\* number of failures the environment injects in one run (a statement, an
\* acquisition, a pool creation or a notification that raises)
MaxFaults == 2
\* largest number of fields of a sample record handed to schema inference
MaxKeys == 3
\* the limit and the window of the rate limiter (RateLimiter is built with
\* 100 requests and 60 seconds), and the clock value the runs stop at
max_requests == 2
window_seconds == 2
MaxTime == 3

(* ---------------------------- universe --------------------------------- *)
Calls == {"c1", "c2"}
Tenants == {"t1", "t2"}
GlobalDb == "global"
Databases == Tenants \cup {GlobalDb}
\* destination tables (the table_name argument)
Tables == {"orders", "items"}
\* client addresses and request paths seen by the rate limiting middleware
ClientIps == {"ip1", "ip2"}
Paths == {"/api/data", "/api/health", "/webhook/data"}
NoUrl == "nourl"
NoCol == "-"
NoPool == 0

\* lower-casing of the field names used in the batches (str.lower)
Lower(k) == CASE k = "ID" -> "id" [] k = "Id" -> "id" [] k = "B" -> "b" [] OTHER -> k

\* field names of the sample records handed to schema inference
Keys == {"id", "ID", "Id", "a", "b"}

\* the values a record can carry under a field, by what the inference can
\* tell apart: True, 7, 1.5, a datetime object, 'abc', '2024-01-15T10:30:00',
\* 'hello-world', a dict
Kinds == {"bool", "int", "float", "datetime", "str", "datestr", "dashstr", "dict"}

\* isinstance(value, cls): bool is a subclass of int
IsInstance(kind, cls) ==
    CASE cls = "bool" -> kind = "bool"
      [] cls = "int" -> kind \in {"bool", "int"}
      [] cls = "float" -> kind = "float"
      [] cls = "datetime" -> kind = "datetime"
      [] cls = "str" -> kind \in {"str", "datestr", "dashstr"}
      [] OTHER -> FALSE

\* len(value) >= 10 and ('-' in value or '/' in value)
LooksLikeDate(kind) == kind \in {"datestr", "dashstr"}
\* datetime.fromisoformat(value.replace('Z', '+00:00')) does not raise
ParsesAsDate(kind) == kind = "datestr"

\* the values of the batches of the upsert calls: the ids are integers, b is
\* a boolean, every other field is a plain string
DefaultKinds ==
    [k \in Keys |-> CASE Lower(k) = "id" -> "int" [] k = "b" -> "bool" [] OTHER -> "str"]

\* record batches: a record is the ordered list of its keys
Rec1 == <<"a", "id">>
Rec2 == <<"a", "b">>
Rec3 == <<"ID", "a">>
Rec4 == <<"id", "b">>
DataChoices == { <<>>, <<Rec1>>, <<Rec2, Rec1>>, <<Rec3>> }

\* sample records for schema inference: up to MaxKeys distinct fields in any order
SampleRecords ==
    { r \in UNION { [1..n -> Keys] : n \in 1..MaxKeys } :
        \A i, j \in DOMAIN r : r[i] = r[j] => i = j }
SampleBatches == { <<>> } \cup { << r >> : r \in SampleRecords }

\* the values of the sample records: any kind under a, a boolean, a number
\* or a nested value under b, an integer or a string under the ids
SampleKinds ==
    { [k \in Keys |-> IF k = "a" THEN x ELSE IF k = "b" THEN y ELSE z] :
        x \in Kinds, y \in {"bool", "int", "float", "dict"}, z \in {"int", "str"} }

\* company_conf rows of a tenant: complete, none, DB_URL missing, DB_TOKEN missing
CfgChoices == {"full", "absent", "nourl", "notoken"}

\* live table of a database: absent, or present with columns and key columns
NoTable == [exists |-> FALSE, cols |-> {}, pk |-> {}]
TableChoices == { NoTable,
                  [exists |-> TRUE, cols |-> {"a", "b"}, pk |-> {"b"}],
                  [exists |-> TRUE, cols |-> {"a"}, pk |-> {}] }

VARIABLES
    pools,            \* ConnectionPool.pools: tenant -> pool id (NoPool: no entry)
    poolUrl,          \* database each created pool connects to, by pool id
    closedPools,      \* pool ids that were closed
    clientDbConfigs,  \* SupabaseService._client_db_configs (tenants cached)
    cfg,              \* company_conf of every tenant
    databaseUrl,      \* settings.DATABASE_URL is set
    databaseSecret,   \* settings.DATABASE_SECRET is set
    db,               \* the live tables of every database, by table name
    tenantOf,         \* upsert_data argument empresa_id of each task
    tableOf,          \* upsert_data argument table_name of each task
    data,             \* upsert_data argument data of each task
    ver,              \* the values the task's records carry in their fields
    kinds,            \* the kind of value the records carry under each field
    batch,            \* the tasks are the tables of one multi-table request
    http,             \* what the request handler has answered for the task
    tableRows,        \* the rows stored in every table of every database
    response,         \* number of rows in response.data of the task's write
    pc,               \* position of the task in upsert_data
    qpc,              \* position of the task in execute_query
    qpool,            \* execute_query local: pool
    held,             \* execute_query local: connection is held
    qerr,             \* execute_query: the exception propagating ("" when none)
    qres,             \* rows returned by the last execute_query
    client,           \* upsert_data local: client
    existing,         \* _compare_and_alter_table local: existing_columns
    todo,             \* _compare_and_alter_table: inferred columns still to visit
    inferredSchema,   \* upsert_data local inferred_schema: the TableSchema built
    faults,           \* failures the environment may still inject
    log,              \* what the task did, in order
    result,           \* the (success, message, count) triple returned
    now,              \* time.time(), in seconds
    requests,         \* RateLimiter.requests: client address -> deque of times
    accepted,         \* times at which is_allowed returned True, per address
    lastRequest       \* the request the middleware handled last and its status

vars == << pools, poolUrl, closedPools, clientDbConfigs, cfg, databaseUrl,
           databaseSecret, db, tenantOf, tableOf, data, ver, kinds, batch, http,
           tableRows, response, pc, qpc, qpool, held, qerr,
           qres, client, existing, todo, inferredSchema, faults, log, result,
           now, requests, accepted, lastRequest >>

limiterVars == << now, requests, accepted, lastRequest >>

envVars == << cfg, databaseUrl, databaseSecret, tenantOf, tableOf, data, ver, kinds,
             batch >>

\* the Python type of the value the records carry under a field
ValueKind(k) == kinds[k]

\* a statement text, as far as the query executor looks at it: whether it
\* begins with white space, its first word as written and the character that
\* follows the word
Text(lead, word, sep) == [lead |-> lead, word |-> word, sep |-> sep]
\* str.strip and str.lower on a statement text
Strip(t) == [t EXCEPT !.lead = FALSE]
LowerWord(w) ==
    CASE w = "CREATE" -> "create"
      [] w = "ALTER" -> "alter"
      [] w = "DROP" -> "drop"
      [] w = "SELECT" -> "select"
      [] w = "NOTIFY" -> "notify"
      [] OTHER -> w
LowerText(t) == [t EXCEPT !.word = LowerWord(@)]
\* str.startswith(("create ", "alter ", "drop "))
StartsWithDdl(t) == ~t.lead /\ t.word \in {"create", "alter", "drop"} /\ t.sep = " "
NoRequest == [ip |-> "", path |-> "", status |-> 0]
NoResult == [success |-> FALSE, msg |-> "pending", err |-> "", count |-> -1]
Ret(s, m, e, n) == [success |-> s, msg |-> m, err |-> e, count |-> n]
Ev(o, a) == [op |-> o, arg |-> a]

(* ------------------------ schema inference ----------------------------- *)
\* ColumnDefinition(name=key, type=t, primary_key=p): the name is lower-cased
\* by validate_column_name, the other fields take their defaults
Column(k, t, p) ==
    [key |-> k, name |-> Lower(k), type |-> t, nullable |-> TRUE, pk |-> p,
     default |-> ""]

\* faulty variant: the integer test comes before the boolean test
PgType_IntFirst(kind) ==
    IF IsInstance(kind, "int") THEN "bigint"
    ELSE IF IsInstance(kind, "bool") THEN "boolean"
    ELSE IF IsInstance(kind, "float") THEN "real"
    ELSE IF IsInstance(kind, "datetime") THEN "timestamp"
    ELSE "text"

\* Python type to PostgreSQL type in _infer_schema_from_data: the isinstance
\* chain in its order
PgType(kind) ==
    IF IsInstance(kind, "bool") THEN "boolean"
    ELSE IF IsInstance(kind, "int") THEN "bigint"
    ELSE IF IsInstance(kind, "float") THEN "real"
    ELSE IF IsInstance(kind, "datetime") THEN "timestamp"
    ELSE "text"

RECURSIVE InferColumns_NoFallback(_, _, _)
\* faulty variant: without an id field no column is flagged primary
InferColumns_NoFallback(keys, hasId, n) ==
    IF keys = <<>> THEN <<>>
    ELSE << Column(Head(keys), PgType(ValueKind(Head(keys))),
                   hasId /\ Lower(Head(keys)) = "id") >>
         \o InferColumns_NoFallback(Tail(keys), hasId, n + 1)

RECURSIVE InferColumns(_, _, _)
\* the loop of _infer_schema_from_data over sample.items()
InferColumns(keys, hasId, n) ==
    IF keys = <<>> THEN <<>>
    ELSE << Column(Head(keys), PgType(ValueKind(Head(keys))),
                   IF hasId THEN Lower(Head(keys)) = "id" ELSE n = 0) >>
         \o InferColumns(Tail(keys), hasId, n + 1)

\* move the column stored under the key 'id' to the front
IdFirst(cols) ==
    LET isId(c) == c.key = "id"
        notId(c) == c.key # "id"
    IN  SelectSeq(cols, isId) \o SelectSeq(cols, notId)

\* the id column validate_columns makes up
SyntheticId ==
    [key |-> "", name |-> "id", type |-> "uuid", nullable |-> FALSE, pk |-> TRUE,
     default |-> "gen_random_uuid()"]

\* faulty variant: a list without a primary column is left as it is
ValidateColumns_NoSynthetic(cols) == cols

\* TableSchema.validate_columns: a synthetic id column when nothing is primary
ValidateColumns(cols) ==
    IF \E i \in 1..Len(cols) : cols[i].pk THEN cols
    ELSE << SyntheticId >> \o cols

\* faulty variant: the sample is the last record of the batch
InferColumnsOf_LastRecord(d) ==
    IF d = <<>> THEN <<>> ELSE
    LET sample == d[Len(d)]
        hasId == \E i \in 1..Len(sample) : sample[i] = "id"
        cols == InferColumns(sample, hasId, 0)
    IN  IF hasId THEN IdFirst(cols) ELSE cols

\* _infer_schema_from_data up to the TableSchema constructor: the column
\* list built from the first record (data[0]), [] for an empty batch
InferColumnsOf(d) ==
    IF d = <<>> THEN <<>> ELSE
    LET sample == d[1]
        hasId == \E i \in 1..Len(sample) : sample[i] = "id"
        cols == InferColumns(sample, hasId, 0)
    IN  IF hasId THEN IdFirst(cols) ELSE cols

\* the columns of the inferred TableSchema
InferSchema(d) == IF d = <<>> THEN <<>> ELSE ValidateColumns(InferColumnsOf(d))

\* Python type to column type in infer_table_schema_from_data: the isinstance
\* chain in its order; a string that looks like a date and parses is a
\* timestamp, any other string a varchar
RouteType(kind) ==
    IF IsInstance(kind, "bool") THEN "boolean"
    ELSE IF IsInstance(kind, "int") THEN "integer"
    ELSE IF IsInstance(kind, "float") THEN "decimal"
    ELSE IF IsInstance(kind, "str")
    THEN (IF LooksLikeDate(kind) /\ ParsesAsDate(kind) THEN "timestamp" ELSE "varchar")
    ELSE "text"

\* infer_table_schema_from_data: one nullable column per field of the first
\* record, none of them flagged primary
RouteColumns(sample) ==
    [i \in 1..Len(sample) |-> Column(sample[i], RouteType(ValueKind(sample[i])), FALSE)]

\* get_create_table_sql: the column clauses in order, then PRIMARY KEY (...)
\* over the columns flagged primary
CreateTableSql(cols) ==
    LET isPk(c) == c.pk
        pks == SelectSeq(cols, isPk)
    IN  [columns |-> [i \in 1..Len(cols) |->
                        [name |-> cols[i].name, type |-> cols[i].type,
                         notNull |-> ~cols[i].nullable, default |-> cols[i].default]],
         primaryKey |-> [i \in 1..Len(pks) |-> pks[i].name]]

ColNames(schema) == { schema[i].name : i \in 1..Len(schema) }
PkNames(schema) == { schema[i].name : i \in { j \in 1..Len(schema) : schema[j].pk } }

\* no TableSchema was built; TableSchema(columns=cols) once validate_columns passed
NoSchema == [built |-> FALSE, columns |-> <<>>]
TableSchema(cols) == [built |-> TRUE, columns |-> ValidateColumns(cols)]

(* ------------------------- initial states ------------------------------ *)
\* the task's write has not returned
NoResponse == -1
\* values a record can carry: two batches with the same fields and the same
\* version are equal, with different versions they differ outside the key
Versions == {1, 2}

NoRows == [isNone |-> FALSE, rows |-> {}]
NoneRows == [isNone |-> TRUE, rows |-> {}]

TypeOK ==
    /\ pools \in [Tenants -> 0..(MaxPools + 1)]
    /\ closedPools \subseteq 1..Len(poolUrl)
    /\ clientDbConfigs \subseteq Tenants
    /\ pc \in [Calls -> {"off", "idle", "exists1", "create", "reload", "sleep",
                         "exists2", "cols", "alter", "pk", "done",
                         "infer", "inferred", "routed",
                         "queued", "h_exists", "h_create", "skipped", "aborted"}]
    /\ http \in [Calls -> {"none", "waiting", "running", "skipped", "ok",
                           "400", "404", "500", "503"}]
    /\ qpc \in [Calls -> {"none", "creating", "acquiring", "executing",
                          "notifying", "releasing", "returned", "raised"}]
    /\ held \in [Calls -> BOOLEAN]
    /\ kinds \in [Keys -> Kinds]
    /\ now \in 0..MaxTime
    /\ lastRequest.status \in {0, 200, 429}

InitCommon ==
    /\ pools = [t \in Tenants |-> NoPool]
    /\ poolUrl = <<>>
    /\ closedPools = {}
    /\ clientDbConfigs = {}
    /\ tableRows = [d \in Databases |-> [t \in Tables |-> <<>>]]
    /\ response = [c \in Calls |-> NoResponse]
    /\ qpc = [c \in Calls |-> "none"]
    /\ qpool = [c \in Calls |-> NoPool]
    /\ held = [c \in Calls |-> FALSE]
    /\ qerr = [c \in Calls |-> ""]
    /\ qres = [c \in Calls |-> NoRows]
    /\ client = [c \in Calls |-> FALSE]
    /\ existing = [c \in Calls |-> {}]
    /\ todo = [c \in Calls |-> <<>>]
    /\ inferredSchema = [c \in Calls |-> NoSchema]
    /\ log = [c \in Calls |-> <<>>]
    /\ result = [c \in Calls |-> NoResult]
    /\ now = 0
    /\ requests = [ip \in ClientIps |-> <<>>]
    /\ accepted = [ip \in ClientIps |-> <<>>]
    /\ lastRequest = NoRequest

\* the databases when only the table orders may exist: as t1 in the first
\* tenant's database, as t2 in the second's, as g in the global one
OrdersOnly(t1, t2, g) ==
    [d \in Databases |->
       [n \in Tables |->
          IF n # "orders" THEN NoTable
          ELSE IF d = "t1" THEN t1 ELSE IF d = "t2" THEN t2 ELSE g]]

\* one task runs upsert_data; the other never starts
Init ==
    /\ InitCommon
    /\ pc = [c \in Calls |-> IF c = "c1" THEN "idle" ELSE "off"]
    /\ faults = MaxFaults
    /\ batch = FALSE
    /\ http = [c \in Calls |-> "none"]
    /\ tenantOf = [c \in Calls |-> "t1"]
    /\ tableOf = [c \in Calls |-> "orders"]
    /\ \E k \in CfgChoices : cfg = [t \in Tenants |-> IF t = "t1" THEN k ELSE "full"]
    /\ databaseUrl \in BOOLEAN
    /\ databaseSecret \in BOOLEAN
    /\ \E t, g \in TableChoices : db = OrdersOnly(t, NoTable, g)
    /\ \E d \in DataChoices : data = [c \in Calls |-> IF c = "c1" THEN d ELSE <<>>]
    /\ ver = [c \in Calls |-> 1]
    /\ kinds = DefaultKinds

\* two tasks run upsert_data concurrently on tenants with complete configuration
InitConc ==
    /\ InitCommon
    /\ pc = [c \in Calls |-> "idle"]
    /\ faults = 1
    /\ batch = FALSE
    /\ http = [c \in Calls |-> "none"]
    /\ \E e \in Tenants : tenantOf = [c \in Calls |-> IF c = "c1" THEN "t1" ELSE e]
    /\ tableOf = [c \in Calls |-> "orders"]
    /\ cfg = [t \in Tenants |-> "full"]
    /\ databaseUrl \in BOOLEAN
    /\ databaseSecret = FALSE
    /\ \E t \in TableChoices : db = OrdersOnly(t, t, NoTable)
    /\ \E d \in { <<Rec1>>, <<Rec2, Rec1>> } :
          data = [c \in Calls |-> IF c = "c1" THEN <<Rec1>> ELSE d]
    /\ ver = [c \in Calls |-> 1]
    /\ kinds = DefaultKinds

(* ---------------------- tenant connection registry --------------------- *)
\* get_connection_pool up to the call of get_pool: the connection string
ResolveUrl(e) ==
    IF databaseUrl THEN GlobalDb
    ELSE IF cfg[e] = "absent" \/ cfg[e] = "nourl" THEN NoUrl
    ELSE IF cfg[e] = "notoken" /\ ~databaseSecret THEN NoUrl
    ELSE e

\* faulty variant: the two keys of the configuration are not checked
ClientAvailable_KeysUnchecked(e) == cfg[e] # "absent"

\* get_client_connection: an isolated REST client, or None
ClientAvailable(e) == cfg[e] = "full"

(* --------------------------- query executor ---------------------------- *)
\* execute_query from its entry to its first suspension: get_connection_pool
\* and the registry lookup of get_pool
BeginQuery(c) ==
    LET e == tenantOf[c]
        url == ResolveUrl(e)
    IN  /\ clientDbConfigs' = IF ~databaseUrl /\ cfg[e] # "absent"
                              THEN clientDbConfigs \cup {e} ELSE clientDbConfigs
        /\ qerr' = [qerr EXCEPT ![c] = ""]
        /\ IF url = NoUrl
           THEN /\ qpc' = [qpc EXCEPT ![c] = "returned"]
                /\ qpool' = [qpool EXCEPT ![c] = NoPool]
                /\ qres' = [qres EXCEPT ![c] = NoneRows]
           ELSE IF pools[e] # NoPool
           THEN /\ qpc' = [qpc EXCEPT ![c] = "acquiring"]
                /\ qpool' = [qpool EXCEPT ![c] = pools[e]]
                /\ qres' = [qres EXCEPT ![c] = NoRows]
           ELSE /\ qpc' = [qpc EXCEPT ![c] = "creating"]
                /\ qpool' = [qpool EXCEPT ![c] = NoPool]
                /\ qres' = [qres EXCEPT ![c] = NoRows]
        /\ UNCHANGED << pools, poolUrl, closedPools, held >>

\* ConnectionPool.get_pool after asyncpg.create_pool came back
PoolCreated(c) ==
    /\ qpc[c] = "creating"
    /\ \/ /\ Len(poolUrl) < MaxPools
          /\ poolUrl' = Append(poolUrl, ResolveUrl(tenantOf[c]))
          /\ pools' = [pools EXCEPT ![tenantOf[c]] = Len(poolUrl) + 1]
          /\ qpool' = [qpool EXCEPT ![c] = Len(poolUrl) + 1]
          /\ qpc' = [qpc EXCEPT ![c] = "acquiring"]
          /\ UNCHANGED << qres, faults >>
       \/ /\ faults > 0 \/ Len(poolUrl) >= MaxPools
          /\ faults' = IF faults > 0 THEN faults - 1 ELSE faults
          /\ qpc' = [qpc EXCEPT ![c] = "returned"]
          /\ qres' = [qres EXCEPT ![c] = NoneRows]
          /\ UNCHANGED << pools, poolUrl, qpool >>
    /\ UNCHANGED << closedPools, clientDbConfigs, envVars, limiterVars, http, db, tableRows,
                    response, pc, held, qerr, client, existing, todo,
                    inferredSchema, log, result >>

\* the statement the task is executing, as logged when it is issued
StmtArg(c) == IF pc[c] = "alter" THEN Head(todo[c]).name ELSE ""

\* connection = await pool.acquire(), then the statement goes out on it
AcquireEvents(c) == << Ev("acquire", ToString(qpool[c])), Ev(pc[c], StmtArg(c)) >>

\* pool.acquire came back; the statement is sent on the connection
Acquired(c) ==
    /\ qpc[c] = "acquiring"
    /\ \/ /\ held' = [held EXCEPT ![c] = TRUE]
          /\ qpc' = [qpc EXCEPT ![c] = "executing"]
          /\ log' = [log EXCEPT ![c] = @ \o AcquireEvents(c)]
          /\ UNCHANGED << qerr, faults >>
       \/ /\ faults > 0
          /\ faults' = faults - 1
          /\ qerr' = [qerr EXCEPT ![c] = "dberror"]
          /\ qpc' = [qpc EXCEPT ![c] = "raised"]
          /\ UNCHANGED << held, log >>
    /\ UNCHANGED << pools, poolUrl, closedPools, clientDbConfigs, envVars, limiterVars, http, db,
                    tableRows, response, pc, qpool, qres, client, existing, todo,
                    inferredSchema, result >>

\* the statement text of each step of the upsert orchestrator and the handlers
QueryText(kind) ==
    CASE kind \in {"create", "h_create"} -> Text(FALSE, "CREATE", " ")
      [] kind = "alter" -> Text(FALSE, "ALTER", " ")
      [] kind = "reload" -> Text(FALSE, "NOTIFY", " ")
      [] kind \in {"exists1", "exists2"} -> Text(FALSE, "SELECT", " ")
      [] OTHER -> Text(TRUE, "SELECT", " ")

\* faulty variant: no statement is recognised as data definition
IsDdl_Never(kind) == FALSE

\* faulty variant: the text is tested as it came, without strip and lower
IsDdl_AsWritten(kind) == StartsWithDdl(QueryText(kind))

\* ddl = query.strip().lower().startswith(("create ", "alter ", "drop "))
IsDdl(kind) == StartsWithDdl(LowerText(Strip(QueryText(kind))))

\* the statement raised e: the exception propagates through the finally block
StmtRaises(c, e) ==
    /\ qerr' = [qerr EXCEPT ![c] = e]
    /\ qpc' = [qpc EXCEPT ![c] = "releasing"]
    /\ UNCHANGED << db, qres, log >>

\* the statement completed with the given rows and database
StmtReturns(c, rows, newDb) ==
    /\ db' = newDb
    /\ qres' = [qres EXCEPT ![c] = [isNone |-> FALSE, rows |-> rows]]
    /\ IF IsDdl(pc[c])
       THEN /\ qpc' = [qpc EXCEPT ![c] = "notifying"]
            /\ log' = [log EXCEPT ![c] = Append(@, Ev("reload", "auto"))]
       ELSE /\ qpc' = [qpc EXCEPT ![c] = "releasing"]
            /\ UNCHANGED log
    /\ UNCHANGED qerr

\* faulty variant: the create statement replaces a table that is there
Created_Overwrite(t, schema) ==
    [exists |-> TRUE, cols |-> ColNames(schema), pk |-> PkNames(schema)]

\* the table a successful CREATE TABLE IF NOT EXISTS leaves behind
Created(t, schema) ==
    IF t.exists THEN t
    ELSE [exists |-> TRUE, cols |-> ColNames(schema), pk |-> PkNames(schema)]

\* faulty variant: the statement is ADD COLUMN IF NOT EXISTS
AddColumnFits_IfNotExists(t, col) == t.exists

\* ALTER TABLE ... ADD COLUMN goes through: the table is there and has no
\* column of that name
AddColumnFits(t, col) == t.exists /\ col \notin t.cols

\* connection.execute / connection.fetch came back
Executed(c) ==
    /\ qpc[c] = "executing"
    /\ LET d == poolUrl[qpool[c]]
           n == tableOf[c]
           t == db[d][n]
           k == pc[c]
       IN  \/ /\ faults > 0
              /\ faults' = faults - 1
              /\ StmtRaises(c, "dberror")
           \/ /\ UNCHANGED faults
              /\ k \in {"exists1", "exists2"}
              /\ IF t.exists THEN StmtReturns(c, {"1"}, db)
                 ELSE StmtRaises(c, "undefined")
           \/ /\ UNCHANGED faults
              /\ k = "h_exists"
              /\ StmtReturns(c, IF t.exists THEN {"true"} ELSE {"false"}, db)
           \/ /\ UNCHANGED faults
              /\ k \in {"create", "h_create"}
              /\ StmtReturns(c, {}, [db EXCEPT ![d][n] = Created(t, InferSchema(data[c]))])
           \/ /\ UNCHANGED faults
              /\ k = "alter"
              /\ IF AddColumnFits(t, Head(todo[c]).name)
                 THEN StmtReturns(c, {}, [db EXCEPT ![d][n].cols = @ \cup {Head(todo[c]).name}])
                 ELSE StmtRaises(c, "duplicate")
           \/ /\ UNCHANGED faults
              /\ k = "reload"
              /\ StmtReturns(c, {}, db)
           \/ /\ UNCHANGED faults
              /\ k = "cols"
              /\ StmtReturns(c, t.cols, db)
           \/ /\ UNCHANGED faults
              /\ k = "pk"
              /\ \/ /\ t.pk = {}
                    /\ StmtReturns(c, {}, db)
                 \/ \E col \in t.pk : StmtReturns(c, {col}, db)
    /\ UNCHANGED << pools, poolUrl, closedPools, clientDbConfigs, envVars, limiterVars, http, pc,
                    tableRows, response, qpool, held, client, existing, todo,
                    inferredSchema, result >>

\* NOTIFY pgrst, 'reload schema' after a DDL statement; a failure is only logged
Notified(c) ==
    /\ qpc[c] = "notifying"
    /\ qpc' = [qpc EXCEPT ![c] = "releasing"]
    /\ \/ UNCHANGED << log, faults >>
       \/ /\ faults > 0
          /\ faults' = faults - 1
          /\ log' = [log EXCEPT ![c] = Append(@, Ev("reload_error", "auto"))]
    /\ UNCHANGED << pools, poolUrl, closedPools, clientDbConfigs, envVars, limiterVars, http, db,
                    tableRows, response, pc, qpool, held, qerr, qres, client,
                    existing, todo, inferredSchema, result >>

\* faulty variant: the connection is never given back
ReleaseHeld_Never(c) == held[c]

\* faulty variant: the release is skipped when an exception propagates
ReleaseHeld_OnSuccessOnly(c) == IF qerr[c] # "" THEN held[c] ELSE FALSE

\* the finally block releases the connection when connection and pool are set
ReleaseHeld(c) == IF held[c] /\ qpool[c] # NoPool THEN FALSE ELSE held[c]

\* finally: pool.release(connection), then the return or the re-raise
Released(c) ==
    /\ qpc[c] = "releasing"
    /\ held' = [held EXCEPT ![c] = ReleaseHeld(c)]
    /\ log' = [log EXCEPT ![c] = IF held[c] /\ qpool[c] # NoPool
                                  THEN Append(@, Ev("release", "")) ELSE @]
    /\ qpc' = [qpc EXCEPT ![c] = IF qerr[c] # "" THEN "raised" ELSE "returned"]
    /\ UNCHANGED << pools, poolUrl, closedPools, clientDbConfigs, envVars, limiterVars, http,
                    faults, db, tableRows, response, pc, qpool, qerr, qres, client,
                    existing, todo, inferredSchema, result >>

(* -------------------------- upsert orchestrator ------------------------ *)
QueryOver(c) == qpc[c] \in {"returned", "raised"}

\* faulty variant: exceptions of execute_query are swallowed
Raised_Swallowed(c) == FALSE

\* except Exception around an execute_query call
Raised(c) == qpc[c] = "raised"

\* how the execute_query call of the current statement ended: it raised (with
\* the exception), returned None for want of a pool, or returned rows
Outcome(c) ==
    Ev(IF qpc[c] = "raised" THEN qerr[c] ELSE IF qres[c].isNone THEN "nopool" ELSE "returned",
       pc[c])

\* return False, message, 0
Fail(c, m, e) ==
    /\ result' = [result EXCEPT ![c] = Ret(FALSE, m, e, 0)]
    /\ pc' = [pc EXCEPT ![c] = "done"]
    /\ qpc' = [qpc EXCEPT ![c] = "none"]
    /\ UNCHANGED << pools, poolUrl, closedPools, clientDbConfigs, qpool, held, qerr,
                    qres >>

\* faulty variant: the except clause reports the batch size as the count
Unexpected_CountsBatch(c) ==
    /\ result' = [result EXCEPT ![c] = Ret(FALSE, "unexpected", pc[c], Len(data[c]))]
    /\ pc' = [pc EXCEPT ![c] = "done"]
    /\ qpc' = [qpc EXCEPT ![c] = "none"]
    /\ UNCHANGED << pools, poolUrl, closedPools, clientDbConfigs, qpool, held, qerr,
                    qres >>

\* the except clause of upsert_data: the message carries str(e)
Unexpected(c) == Fail(c, "unexpected", pc[c])

\* the next statement of upsert_data is handed to execute_query
Issue(c, next) ==
    /\ pc' = [pc EXCEPT ![c] = next]
    /\ BeginQuery(c)
    /\ UNCHANGED result

\* faulty variant: the empty-batch shortcut is missing
EmptyBatch_Missing(d) == FALSE

\* if not data
EmptyBatch(d) == d = <<>>

\* upsert_data from its entry to the first existence check
Start(c) ==
    /\ pc[c] = "idle"
    /\ IF EmptyBatch(data[c])
       THEN /\ result' = [result EXCEPT ![c] = Ret(TRUE, "no_data", "", 0)]
            /\ pc' = [pc EXCEPT ![c] = "done"]
            /\ UNCHANGED << pools, poolUrl, closedPools, clientDbConfigs, qpc,
                            qpool, held, qerr, qres, client, log >>
       ELSE /\ log' = [log EXCEPT ![c] = Append(@, Ev("getclient", ""))]
            /\ \/ /\ ClientAvailable(tenantOf[c])
                  /\ client' = [client EXCEPT ![c] = TRUE]
                  /\ Issue(c, "exists1")
               \/ /\ UNCHANGED client
                  /\ Fail(c, "no_connection", "")
    /\ UNCHANGED << envVars, limiterVars, http, faults, db, tableRows, response, existing, todo,
                    inferredSchema >>

\* table_exists_postgres: True when execute_query returned, False when it raised
TableExists(c) == qpc[c] = "returned"

\* faulty variant: the result of the re-check is ignored
RecheckPassed_Ignored(c) == TRUE

\* if not await self.table_exists_postgres(...) after the settle delay
RecheckPassed(c) == TableExists(c)

\* the branch on table_exists after the first check
AfterExists(c) ==
    /\ pc[c] = "exists1"
    /\ QueryOver(c)
    /\ inferredSchema' = [inferredSchema EXCEPT ![c] = TableSchema(InferColumnsOf(data[c]))]
    /\ IF TableExists(c) THEN Issue(c, "cols") ELSE Issue(c, "create")
    /\ log' = [log EXCEPT ![c] = Append(@, Outcome(c))]
    /\ UNCHANGED << envVars, limiterVars, http, faults, db, tableRows, response, client,
                    existing, todo >>

\* the create statement came back: the explicit reload signal follows
AfterCreate(c) ==
    /\ pc[c] = "create"
    /\ QueryOver(c)
    /\ IF Raised(c) THEN Unexpected(c) ELSE Issue(c, "reload")
    /\ log' = [log EXCEPT ![c] = Append(@, Outcome(c))]
    /\ UNCHANGED << envVars, limiterVars, http, faults, db, tableRows, response, client,
                    existing, todo, inferredSchema >>

\* faulty variant: the invalidation drops the tenant's pool from the registry
InvalidatedPools_Dropped(e) == [pools EXCEPT ![e] = NoPool]

\* invalidate_client_connection: only logs
InvalidatedPools(e) == pools

\* the explicit reload came back: invalidate, then asyncio.sleep(1)
AfterReload(c) ==
    /\ pc[c] = "reload"
    /\ QueryOver(c)
    /\ IF Raised(c)
       THEN /\ Unexpected(c)
            /\ log' = [log EXCEPT ![c] = Append(@, Outcome(c))]
       ELSE /\ pools' = InvalidatedPools(tenantOf[c])
            /\ log' = [log EXCEPT ![c] = @ \o << Outcome(c),
                           Ev("invalidate", ToString(pools[tenantOf[c]])),
                           Ev("sleep", "") >>]
            /\ pc' = [pc EXCEPT ![c] = "sleep"]
            /\ qpc' = [qpc EXCEPT ![c] = "none"]
            /\ UNCHANGED << poolUrl, closedPools, clientDbConfigs, qpool, held,
                            qerr, qres, result >>
    /\ UNCHANGED << envVars, limiterVars, http, faults, db, tableRows, response, client,
                    existing, todo, inferredSchema >>

\* the sleep is over: the client is obtained again and the table re-checked
Wake(c) ==
    /\ pc[c] = "sleep"
    /\ log' = [log EXCEPT ![c] = Append(@, Ev("getclient", ""))]
    /\ \/ /\ ClientAvailable(tenantOf[c])
          /\ Issue(c, "exists2")
       \/ Fail(c, "no_reconnection", "")
    /\ UNCHANGED << envVars, limiterVars, http, faults, db, tableRows, response, client,
                    existing, todo, inferredSchema >>

\* faulty variant: a failed re-check goes back to the settle delay
RecheckFailed_Retry(c) ==
    /\ pc' = [pc EXCEPT ![c] = "sleep"]
    /\ qpc' = [qpc EXCEPT ![c] = "none"]
    /\ UNCHANGED << pools, poolUrl, closedPools, clientDbConfigs, qpool, held, qerr,
                    qres, result >>

\* the table is still absent: return False, message, 0 (no further attempt)
RecheckFailed(c) == Fail(c, "create_failed", "")

\* the re-check after the settle delay
AfterRecheck(c) ==
    /\ pc[c] = "exists2"
    /\ QueryOver(c)
    /\ IF RecheckPassed(c) THEN Issue(c, "pk") ELSE RecheckFailed(c)
    /\ log' = [log EXCEPT ![c] = Append(@, Outcome(c))]
    /\ UNCHANGED << envVars, limiterVars, http, faults, db, tableRows, response, client,
                    existing, todo, inferredSchema >>

\* faulty variant: every inferred column is added, whatever the table has
Missing_All(cols, have) == cols

RECURSIVE Missing(_, _)
\* the columns of the inferred schema the loop still adds, given existing_columns
Missing(cols, have) ==
    IF cols = <<>> THEN <<>>
    ELSE IF Head(cols).name \notin have THEN cols
    ELSE Missing(Tail(cols), have)

\* _get_table_schema_from_db: the column names, [] when the result is None
ExistingColumns(c) == IF qres[c].isNone THEN {} ELSE qres[c].rows

\* _compare_and_alter_table after the column introspection
AfterColumns(c) ==
    /\ pc[c] = "cols"
    /\ QueryOver(c)
    /\ IF Raised(c)
       THEN /\ Unexpected(c)
            /\ UNCHANGED << existing, todo >>
       ELSE LET have == ExistingColumns(c)
                rest == Missing(InferSchema(data[c]), have)
            IN  /\ existing' = [existing EXCEPT ![c] = have]
                /\ todo' = [todo EXCEPT ![c] = rest]
                /\ IF rest = <<>> THEN Issue(c, "pk") ELSE Issue(c, "alter")
    /\ log' = [log EXCEPT ![c] = Append(@, Outcome(c))]
    /\ UNCHANGED << envVars, limiterVars, http, faults, db, tableRows, response, client,
                    inferredSchema >>

\* _compare_and_alter_table after one add-column statement
AfterAlter(c) ==
    /\ pc[c] = "alter"
    /\ QueryOver(c)
    /\ IF Raised(c)
       THEN /\ Unexpected(c)
            /\ UNCHANGED todo
       ELSE LET rest == Missing(Tail(todo[c]), existing[c])
            IN  /\ todo' = [todo EXCEPT ![c] = rest]
                /\ IF rest = <<>> THEN Issue(c, "pk") ELSE Issue(c, "alter")
    /\ log' = [log EXCEPT ![c] = Append(@, Outcome(c))]
    /\ UNCHANGED << envVars, limiterVars, http, faults, db, tableRows, response, client,
                    existing, inferredSchema >>

\* _get_primary_key_column: the first row's column, None without rows or on error
PrimaryKeyColumn(c) ==
    IF qpc[c] = "returned" /\ ~qres[c].isNone /\ qres[c].rows # {}
    THEN CHOOSE col \in qres[c].rows : TRUE
    ELSE NoCol

\* faulty variant: the conflict target is the inferred schema's key guess
WriteEvent_InferredKey(c) ==
    Ev("upsert", CHOOSE k \in PkNames(InferSchema(data[c])) : TRUE)

\* the write upsert_data sends through the REST client: an upsert on the
\* resolved key column, a plain insert without one
WriteEvent(c) ==
    IF PrimaryKeyColumn(c) # NoCol THEN Ev("upsert", PrimaryKeyColumn(c))
    ELSE Ev("insert", "")

\* a stored row: the record it came from and the values it carries
Row(r, v) == [rec |-> r, ver |-> v]
HasField(r, k) == \E i \in DOMAIN r : r[i] = k
Stored(R, r) == \E i \in DOMAIN R : R[i].rec = r

\* table t can take record r: every field is a column and every key column
\* has a value
Accepts(t, r) ==
    /\ t.exists
    /\ \A i \in DOMAIN r : r[i] \in t.cols
    /\ \A k \in t.pk : HasField(r, k)

RECURSIVE UpsertRows(_, _, _)
\* upsert(data, on_conflict=key): a record replaces the stored row with its
\* key value, or is added when there is none
UpsertRows(R, recs, v) ==
    IF recs = <<>> THEN R
    ELSE LET r == Head(recs)
             R1 == IF Stored(R, r)
                   THEN [i \in DOMAIN R |-> IF R[i].rec = r THEN Row(r, v) ELSE R[i]]
                   ELSE Append(R, Row(r, v))
         IN  UpsertRows(R1, Tail(recs), v)

\* insert(data): every record is added
InsertRows(R, recs, v) == R \o [i \in DOMAIN recs |-> Row(recs[i], v)]

\* the write does not raise: the table takes the records, no key value
\* occurs twice in the batch, an upsert names the key of the written table
\* and an insert into a keyed table brings no key value that is stored
WriteAccepted(c, w, t, R) ==
    /\ \A i \in DOMAIN data[c] : Accepts(t, data[c][i])
    /\ \A i, j \in DOMAIN data[c] : data[c][i] = data[c][j] => i = j
    /\ w.op = "upsert" => t.pk = {w.arg}
    /\ (w.op = "insert" /\ t.pk # {}) => \A i \in DOMAIN data[c] : ~Stored(R, data[c][i])

\* faulty variant: the upsert leaves the rows whose key value is stored alone
WriteRows_IgnoreDuplicates(c, w, R) ==
    LET fresh(r) == ~Stored(R, r)
    IN  InsertRows(R, SelectSeq(data[c], fresh), ver[c])

\* the rows of the written table after the write w of the task
WriteRows(c, w, R) ==
    IF w.op = "upsert" THEN UpsertRows(R, data[c], ver[c])
    ELSE InsertRows(R, data[c], ver[c])

\* faulty variant: whatever comes back is reported as success
WriteResult_AlwaysOk(n) == Ret(TRUE, "written", "", n)

\* what upsert_data returns for the rows in response.data
WriteResult(n) ==
    IF n > 0 THEN Ret(TRUE, "written", "", n) ELSE Ret(FALSE, "write_failed", "", 0)

\* the primary-key lookup came back: the write and the returned triple
AfterPk(c) ==
    /\ pc[c] = "pk"
    /\ QueryOver(c)
    /\ log' = [log EXCEPT ![c] = @ \o << Outcome(c), WriteEvent(c) >>]
    /\ pc' = [pc EXCEPT ![c] = "done"]
    /\ qpc' = [qpc EXCEPT ![c] = "none"]
    /\ LET e == tenantOf[c]
           n == tableOf[c]
           w == WriteEvent(c)
       IN  \/ /\ result' = [result EXCEPT ![c] = Ret(FALSE, "unexpected", "write", 0)]
              /\ UNCHANGED << tableRows, response >>
           \/ /\ WriteAccepted(c, w, db[e][n], tableRows[e][n])
              /\ tableRows' = [tableRows EXCEPT ![e][n] = WriteRows(c, w, @)]
              /\ \E k \in 0..MaxRows :
                    /\ response' = [response EXCEPT ![c] = k]
                    /\ result' = [result EXCEPT ![c] = WriteResult(k)]
    /\ UNCHANGED << pools, poolUrl, closedPools, clientDbConfigs, envVars, limiterVars, http,
                    faults, db, qpool, held, qerr, qres, client, existing, todo,
                    inferredSchema >>

\* ConnectionPool.close_pool, once no task is running
ClosePool(e) ==
    /\ \A c \in Calls : pc[c] \in {"off", "done"}
    /\ pools[e] # NoPool
    /\ closedPools' = closedPools \cup {pools[e]}
    /\ pools' = [pools EXCEPT ![e] = NoPool]
    /\ UNCHANGED << poolUrl, clientDbConfigs, envVars, limiterVars, http, faults, db, tableRows,
                    response, pc, qpc, qpool, held, qerr, qres, client, existing,
                    todo, inferredSchema, log, result >>

Step(c) ==
    \/ Start(c)
    \/ PoolCreated(c)
    \/ Acquired(c)
    \/ Executed(c)
    \/ Notified(c)
    \/ Released(c)
    \/ AfterExists(c)
    \/ AfterCreate(c)
    \/ AfterReload(c)
    \/ Wake(c)
    \/ AfterRecheck(c)
    \/ AfterColumns(c)
    \/ AfterAlter(c)
    \/ AfterPk(c)

Next ==
    \/ \E c \in Calls : Step(c)
    \/ \E e \in Tenants : ClosePool(e)

Spec == Init /\ [][Next]_vars

\* every await of a running task eventually comes back
Fairness == \A c \in Calls : WF_vars(Step(c))

LiveSpec == Init /\ [][Next]_vars /\ Fairness

ConcSpec == InitConc /\ [][Next]_vars

(* ------------------- schema construction on its own -------------------- *)
\* one task builds a TableSchema from a sample batch; nothing else runs
InitSchema ==
    /\ InitCommon
    /\ pc = [c \in Calls |-> IF c = "c1" THEN "infer" ELSE "off"]
    /\ faults = 0
    /\ batch = FALSE
    /\ http = [c \in Calls |-> "none"]
    /\ tenantOf = [c \in Calls |-> "t1"]
    /\ tableOf = [c \in Calls |-> "orders"]
    /\ cfg = [t \in Tenants |-> "full"]
    /\ databaseUrl = FALSE
    /\ databaseSecret = FALSE
    /\ db = OrdersOnly(NoTable, NoTable, NoTable)
    /\ \E d \in SampleBatches : data = [c \in Calls |-> IF c = "c1" THEN d ELSE <<>>]
    /\ ver = [c \in Calls |-> 1]
    /\ kinds \in SampleKinds

\* if not v: raise ValueError in validate_columns
ColumnsRejected(cols) == cols = <<>>

\* TableSchema(columns=cols) in a task that only builds the schema
Construct(c, cols, next) ==
    /\ pc' = [pc EXCEPT ![c] = next]
    /\ IF ColumnsRejected(cols)
       THEN /\ result' = [result EXCEPT ![c] = Ret(FALSE, "value_error", "", 0)]
            /\ UNCHANGED inferredSchema
       ELSE /\ inferredSchema' = [inferredSchema EXCEPT ![c] = TableSchema(cols)]
            /\ UNCHANGED result
    /\ UNCHANGED << pools, poolUrl, closedPools, clientDbConfigs, envVars, limiterVars, http,
                    faults, db, tableRows, response, qpc, qpool, held, qerr, qres,
                    client, existing, todo, log >>

\* SupabaseService._infer_schema_from_data
InferService(c) ==
    /\ pc[c] = "infer"
    /\ Construct(c, InferColumnsOf(data[c]), "inferred")

\* infer_table_schema_from_data of the data routes
InferRoute(c) ==
    /\ pc[c] = "infer"
    /\ IF data[c] = <<>>
       THEN Construct(c, <<>>, "routed")
       ELSE Construct(c, RouteColumns(data[c][1]), "routed")

NextSchema == \E c \in Calls : InferService(c) \/ InferRoute(c)

SchemaSpec == InitSchema /\ [][NextSchema]_vars

(* ------------------------- the request handlers ------------------------ *)
\* the tasks in the order the handler comes to them: the tables of one
\* multi-table request in payload order, or two requests one after the other
Follows(c) == IF c = "c1" THEN {"c2"} ELSE {}
Answered(c) == http[c] \in {"ok", "skipped", "400", "404", "500", "503"}

\* two tasks handled in sequence for one tenant
InitSeq ==
    /\ InitCommon
    /\ pc = [c \in Calls |-> "queued"]
    /\ http = [c \in Calls |-> "waiting"]
    /\ faults = 1
    /\ batch \in BOOLEAN
    /\ tenantOf = [c \in Calls |-> "t1"]
    /\ tableOf = [c \in Calls |-> IF batch /\ c = "c2" THEN "items" ELSE "orders"]
    /\ \E k \in CfgChoices : cfg = [t \in Tenants |-> IF t = "t1" THEN k ELSE "full"]
    /\ databaseUrl \in BOOLEAN
    /\ databaseSecret = FALSE
    /\ \E t \in TableChoices : db = OrdersOnly(t, NoTable, NoTable)
    /\ \E d1 \in { <<Rec1>>, <<Rec2, Rec1>> } \cup (IF batch THEN {} ELSE { <<>> }) :
          \E d2 \in (IF batch THEN { <<>>, <<Rec1>> } ELSE { d1, Append(d1, Rec4) }) :
             data = [c \in Calls |-> IF c = "c1" THEN d1 ELSE d2]
    /\ \E v \in Versions : ver = [c \in Calls |-> IF c = "c1" THEN 1 ELSE v]
    /\ kinds = DefaultKinds

\* the body of the loop over the tables up to the first await: a table
\* without records is passed over, otherwise table_exists is called
EnterTable(c, h) ==
    IF data[c] = <<>>
    THEN /\ pc' = [pc EXCEPT ![c] = "skipped"]
         /\ http' = [h EXCEPT ![c] = "skipped"]
         /\ UNCHANGED << pools, poolUrl, closedPools, clientDbConfigs, qpc, qpool,
                         held, qerr, qres >>
    ELSE /\ pc' = [pc EXCEPT ![c] = "h_exists"]
         /\ http' = [h EXCEPT ![c] = "running"]
         /\ BeginQuery(c)

\* faulty variant: any stored configuration passes the validation
ValidEmpresa_AnyConfig(e) == cfg[e] # "absent"

\* validate_empresa_id: a configuration with the keys DB_URL and DB_TOKEN
ValidEmpresa(e) == cfg[e] = "full"

\* DataPayload.validate_payload of receive_data: the record list is not
\* empty; the tables of a multi-table request are passed over when empty
ValidPayload(c) == batch \/ data[c] # <<>>

\* the handler answers the request with the status before any table is entered
Refuse(c, status) ==
    /\ http' = [http EXCEPT ![c] = status]
    /\ pc' = [pc EXCEPT ![c] = "aborted"]
    /\ UNCHANGED << pools, poolUrl, closedPools, clientDbConfigs, qpc, qpool,
                    held, qerr, qres >>

\* a request arrives: the company and the payload are validated, the client
\* is obtained and the first table is entered
Receive(c) ==
    /\ pc[c] = "queued"
    /\ http[c] = "waiting"
    /\ c = "c1" \/ (~batch /\ Answered("c1"))
    /\ IF ~ValidEmpresa(tenantOf[c]) THEN Refuse(c, "404")
       ELSE IF ~ValidPayload(c) THEN Refuse(c, "400")
       ELSE IF ~ClientAvailable(tenantOf[c]) THEN Refuse(c, "503")
       ELSE EnterTable(c, http)
    /\ UNCHANGED << envVars, limiterVars, faults, db, tableRows, response, client, existing, todo,
                    inferredSchema, log, result >>

\* SupabaseService.table_exists: the exists flag of the first row, False
\* without a result or when the query raised
TableFound(c) == qpc[c] = "returned" /\ ~qres[c].isNone /\ qres[c].rows = {"true"}

\* table_exists came back: create the table when absent, then upsert_data
AfterTableExists(c) ==
    /\ pc[c] = "h_exists"
    /\ QueryOver(c)
    /\ IF TableFound(c)
       THEN /\ pc' = [pc EXCEPT ![c] = "idle"]
            /\ qpc' = [qpc EXCEPT ![c] = "none"]
            /\ UNCHANGED << pools, poolUrl, closedPools, clientDbConfigs, qpool, held,
                            qerr, qres >>
       ELSE Issue(c, "h_create")
    /\ log' = [log EXCEPT ![c] = Append(@, Outcome(c))]
    /\ UNCHANGED << envVars, limiterVars, http, faults, db, tableRows, response, client, existing,
                    todo, inferredSchema, result >>

\* the handler's create statement came back: an exception ends the request
\* with status 500, otherwise upsert_data is called
AfterHandlerCreate(c) ==
    /\ pc[c] = "h_create"
    /\ QueryOver(c)
    /\ pc' = [pc EXCEPT ![c] = IF qpc[c] = "raised" THEN "aborted" ELSE "idle"]
    /\ http' = [http EXCEPT ![c] = IF qpc[c] = "raised" THEN "500" ELSE @]
    /\ qpc' = [qpc EXCEPT ![c] = "none"]
    /\ log' = [log EXCEPT ![c] = Append(@, Outcome(c))]
    /\ UNCHANGED << pools, poolUrl, closedPools, clientDbConfigs, qpool, held, qerr,
                    qres, envVars, limiterVars, faults, db, tableRows, response, client, existing,
                    todo, inferredSchema, result >>

\* faulty variant: a failed table does not stop the loop
Aborts_Never(c) == FALSE

\* if not success: raise HTTPException(status_code=500, detail=message)
Aborts(c) == ~result[c].success

\* upsert_data returned to the handler: a failure ends the request with
\* status 500, otherwise the loop goes on to the next table of the request
Advance(c) ==
    /\ pc[c] = "done"
    /\ http[c] = "running"
    /\ IF Aborts(c)
       THEN /\ http' = [http EXCEPT ![c] = "500"]
            /\ UNCHANGED << pc, pools, poolUrl, closedPools, clientDbConfigs, qpc,
                            qpool, held, qerr, qres >>
       ELSE IF batch /\ \E o \in Follows(c) : pc[o] = "queued"
       THEN EnterTable(CHOOSE o \in Follows(c) : pc[o] = "queued",
                       [http EXCEPT ![c] = "ok"])
       ELSE /\ http' = [http EXCEPT ![c] = "ok"]
            /\ UNCHANGED << pc, pools, poolUrl, closedPools, clientDbConfigs, qpc,
                            qpool, held, qerr, qres >>
    /\ UNCHANGED << envVars, limiterVars, faults, db, tableRows, response, client, existing, todo,
                    inferredSchema, log, result >>

Handle(c) ==
    \/ Receive(c)
    \/ AfterTableExists(c)
    \/ AfterHandlerCreate(c)
    \/ Advance(c)

NextSeq ==
    \/ \E c \in Calls : Step(c)
    \/ \E c \in Calls : Handle(c)
    \/ \E e \in Tenants : ClosePool(e)

SeqSpec == InitSeq /\ [][NextSeq]_vars

(* --------------------------- the rate limiter -------------------------- *)
\* only requests arrive; no upsert call runs
InitRate ==
    /\ InitCommon
    /\ pc = [c \in Calls |-> "off"]
    /\ faults = 0
    /\ batch = FALSE
    /\ http = [c \in Calls |-> "none"]
    /\ tenantOf = [c \in Calls |-> "t1"]
    /\ tableOf = [c \in Calls |-> "orders"]
    /\ cfg = [t \in Tenants |-> "full"]
    /\ databaseUrl = FALSE
    /\ databaseSecret = FALSE
    /\ db = OrdersOnly(NoTable, NoTable, NoTable)
    /\ data = [c \in Calls |-> <<>>]
    /\ ver = [c \in Calls |-> 1]
    /\ kinds = DefaultKinds

\* what the limiter does not touch
LimiterOnly ==
    UNCHANGED << pools, poolUrl, closedPools, clientDbConfigs, envVars, http, db,
                 tableRows, response, pc, qpc, qpool, held, qerr, qres, client,
                 existing, todo, inferredSchema, faults, log, result >>

RECURSIVE Pruned(_, _)
\* while client_requests and client_requests[0] <= now - window: popleft()
Pruned(q, t) ==
    IF q # <<>> /\ Head(q) <= t - window_seconds THEN Pruned(Tail(q), t) ELSE q

\* faulty variant: the limit is tested after the request was counted
Allowed_OffByOne(q) == Len(q) <= max_requests

\* not (len(client_requests) >= self.max_requests)
Allowed(q) == Len(q) < max_requests

\* faulty variant: every path under /api/ is limited
Limited_AllApi(path) == path \in {"/api/data", "/api/health"}

\* request.url.path.startswith("/api/") and request.url.path != "/api/health"
Limited(path) == path = "/api/data"

\* rate_limit_middleware for one request: check_rate_limit where the path is
\* limited (is_allowed, HTTPException 429 when it refuses), then call_next
Arrive(ip, path) ==
    /\ IF Limited(path)
       THEN LET q == Pruned(requests[ip], now)
            IN  IF Allowed(q)
                THEN /\ requests' = [requests EXCEPT ![ip] = Append(q, now)]
                     /\ accepted' = [accepted EXCEPT ![ip] = Append(@, now)]
                     /\ lastRequest' = [ip |-> ip, path |-> path, status |-> 200]
                ELSE /\ requests' = [requests EXCEPT ![ip] = q]
                     /\ lastRequest' = [ip |-> ip, path |-> path, status |-> 429]
                     /\ UNCHANGED accepted
       ELSE /\ lastRequest' = [ip |-> ip, path |-> path, status |-> 200]
            /\ UNCHANGED << requests, accepted >>
    /\ UNCHANGED now
    /\ LimiterOnly

\* a second passes
Tick ==
    /\ now < MaxTime
    /\ now' = now + 1
    /\ UNCHANGED << requests, accepted, lastRequest >>
    /\ LimiterOnly

NextRate ==
    \/ \E ip \in ClientIps, path \in Paths : Arrive(ip, path)
    \/ Tick

RateSpec == InitRate /\ [][NextRate]_vars

(* ======================= properties of the claims ====================== *)
HasEv(l, e) == \E i \in DOMAIN l : l[i] = e
CountOp(l, o) == Cardinality({ i \in DOMAIN l : l[i].op = o })
CountEv(l, e) == Cardinality({ i \in DOMAIN l : l[i] = e })
Last(l) == l[Len(l)]

StmtKinds == {"exists1", "create", "reload", "exists2", "cols", "alter", "pk",
              "h_exists", "h_create"}
ErrOps == {"dberror", "undefined", "duplicate"}
OutcomeOps == ErrOps \cup {"returned", "nopool"}
WriteOps == {"upsert", "insert"}

\* statements the task sent on a pooled connection
IsStmt(e) == e.op \in StmtKinds /\ e.arg # "auto"
Statements(l) == Cardinality({ i \in DOMAIN l : IsStmt(l[i]) })
\* the write was sent
Wrote(c) == \E i \in DOMAIN log[c] : log[c][i].op \in WriteOps
\* reload signals sent after the create-table statement
ReloadsAfterCreate(c) ==
    Cardinality({ i \in DOMAIN log[c] :
                    /\ log[c][i].op = "reload"
                    /\ \E j \in 1..(i - 1) : log[c][j] = Ev("create", "") })
\* settle delays and existence re-checks of the call
Sleeps(c) == CountOp(log[c], "sleep")
Rechecks(c) ==
    Cardinality({ i \in DOMAIN log[c] :
                    log[c][i].op \in OutcomeOps /\ log[c][i].arg = "exists2" })
    + (IF pc[c] = "exists2" THEN 1 ELSE 0)

\* C1: upsert of an empty record list returns (True, -, 0) at once and touches
\* nothing: no client or pool is resolved, no statement, reload signal or
\* write is issued, and the pool registry and the databases are unchanged.
C1_EmptyBatchIsNoOp ==
    [][\A c \in Calls :
         (pc[c] = "idle" /\ data[c] = <<>> /\ pc'[c] # "idle")
         => /\ pc'[c] = "done"
            /\ result'[c] = Ret(TRUE, "no_data", "", 0)
            /\ log'[c] = <<>>
            /\ qpc'[c] = "none"
            /\ pools' = pools
            /\ poolUrl' = poolUrl
            /\ clientDbConfigs' = clientDbConfigs
            /\ db' = db]_vars

C1_Witness ==
    \E c \in Calls : /\ pc[c] = "done"
                     /\ data[c] = <<>>
                     /\ result[c].success
                     /\ result[c].count = 0

\* the first check found the table absent, the create came back without an
\* error and the re-check after the delay reported the table absent
RecheckAbsentAfterCreate(c) ==
    /\ \E o \in ErrOps : HasEv(log[c], Ev(o, "exists1"))
    /\ HasEv(log[c], Ev("returned", "create"))
    /\ \E o \in ErrOps : HasEv(log[c], Ev(o, "exists2"))

\* C2: table absent, create succeeded, re-check still absent: the call has
\* returned success = false (table could not be created) and has issued
\* neither a primary-key lookup nor a write.
C2_RecheckAbsentFails ==
    \A c \in Calls :
        RecheckAbsentAfterCreate(c)
        => /\ pc[c] = "done"
           /\ result[c] = Ret(FALSE, "create_failed", "", 0)
           /\ CountOp(log[c], "pk") = 0
           /\ ~Wrote(c)

C2_Witness ==
    \E c \in Calls : RecheckAbsentAfterCreate(c) /\ pc[c] = "done" /\ ~result[c].success

\* C3 as stated: exactly one reload signal between the create-table statement
\* and the final re-check.
C3_ExactlyOneReload ==
    \A c \in Calls : pc[c] = "exists2" => ReloadsAfterCreate(c) = 1

\* C3 amended: between the create-table statement and the final re-check two
\* reload signals are issued: the one the query executor sends right after the
\* DDL and the explicit one of upsert_data, in that order.
C3_TwoReloads ==
    \A c \in Calls :
        pc[c] = "exists2"
        => /\ ReloadsAfterCreate(c) = 2
           /\ \E i \in DOMAIN log[c] :
                 /\ log[c][i] = Ev("create", "")
                 /\ log[c][i + 1] = Ev("reload", "auto")
                 /\ \E j \in (i + 2)..Len(log[c]) : log[c][j] = Ev("reload", "")

C3_Witness ==
    \E c \in Calls : /\ pc[c] = "exists2"
                     /\ HasEv(log[c], Ev("returned", "create"))
                     /\ HasEv(log[c], Ev("returned", "reload"))

\* C4 as stated: once the create-table statement has been carried out, the
\* call performs exactly one settle delay and exactly one re-check.
C4_ExactlyOneCycle ==
    \A c \in Calls :
        (pc[c] = "done" /\ HasEv(log[c], Ev("returned", "create")))
        => Sleeps(c) = 1 /\ Rechecks(c) = 1

\* no statement of the call is issued twice (add-column: once per column)
NothingRepeated(c) ==
    /\ \A k \in StmtKinds \ {"alter"} : CountEv(log[c], Ev(k, "")) <= 1
    /\ \A i, j \in DOMAIN log[c] :
          (log[c][i].op = "alter" /\ log[c][j] = log[c][i]) => i = j
    /\ CountOp(log[c], "upsert") + CountOp(log[c], "insert") <= 1
    /\ Sleeps(c) <= 1
    /\ Rechecks(c) <= 1

\* the create and the explicit reload came back and the client was obtained again
CycleCompleted(c) ==
    /\ pc[c] = "done"
    /\ \E o \in {"returned", "nopool"} : HasEv(log[c], Ev(o, "reload"))
    /\ result[c].msg # "no_reconnection"

\* C4 amended: after issuing create-table a call performs at most one settle
\* delay and at most one re-check, exactly one of each when the create and
\* the explicit reload come back without error and the client is obtained
\* again; nothing is repeated, and every call that starts returns.
C4_BoundedCycle ==
    /\ [](\A c \in Calls :
            /\ NothingRepeated(c)
            /\ CycleCompleted(c) => (Sleeps(c) = 1 /\ Rechecks(c) = 1)
            /\ (Wrote(c) /\ HasEv(log[c], Ev("create", "")))
               => (Sleeps(c) = 1 /\ Rechecks(c) = 1))
    /\ \A c \in Calls : (pc[c] = "idle") ~> (pc[c] = "done")

C4_Witness ==
    \E c \in Calls : /\ CycleCompleted(c)
                     /\ HasEv(log[c], Ev("create", ""))
                     /\ Sleeps(c) = 1
                     /\ Rechecks(c) = 1

C6_NoLeakedPool ==
    \A id \in 1..Len(poolUrl) :
        id \in closedPools \/ \E t \in Tenants : pools[t] = id

\* C7 as stated: a call that gets as far as the write has acquired exactly
\* one pool connection.
C7_OneAcquisition ==
    \A c \in Calls : (pc[c] = "done" /\ Wrote(c)) => CountOp(log[c], "acquire") = 1

\* C7 amended: a call acquires one connection per statement it issues and
\* releases it before the next one, so it never holds two at a time and a
\* connection is held only while a statement is in progress.
C7_AcquirePerStatement ==
    \A c \in Calls :
        /\ CountOp(log[c], "acquire") = Statements(log[c])
        /\ CountOp(log[c], "acquire") - CountOp(log[c], "release")
             = (IF held[c] THEN 1 ELSE 0)
        /\ held[c] <=> qpc[c] \in {"executing", "notifying", "releasing"}

C7_Witness ==
    \E c \in Calls : /\ pc[c] = "done"
                     /\ Wrote(c)
                     /\ CountOp(log[c], "acquire") >= 3
                     /\ CountOp(log[c], "release") = CountOp(log[c], "acquire")

\* C8: when execute_query has returned or raised, and so whenever the call
\* is between statements, asleep or over, it holds no connection.
C8_ReleasedOnEveryExit ==
    \A c \in Calls :
        /\ qpc[c] \in {"returned", "raised", "none", "creating", "acquiring"}
           => ~held[c]
        /\ pc[c] \in {"off", "idle", "sleep", "done"} => ~held[c]

C8_Witness ==
    \E c \in Calls : /\ qpc[c] = "raised"
                     /\ qerr[c] = "dberror"
                     /\ ~held[c]
                     /\ Len(log[c]) > 0
                     /\ Last(log[c]) = Ev("release", "")

\* the live key columns of the table the call's pool is connected to
LiveKey(c) == IF qpool[c] = NoPool THEN {} ELSE db[poolUrl[qpool[c]]][tableOf[c]].pk

\* C9: the write is an upsert exactly when the resolver returned a column,
\* its conflict target is then a key column of the live table, and it is a
\* plain insert when the resolver returned none.
C9_WriteModeFromLiveKey ==
    \A c \in Calls :
        (pc[c] = "done" /\ Wrote(c))
        => LET w == Last(log[c])
               r == log[c][Len(log[c]) - 1]
           IN  /\ r.arg = "pk"
               /\ w.op = "upsert" => (r.op = "returned" /\ w.arg \in LiveKey(c))
               /\ w.op = "insert" => (r.op # "returned" \/ LiveKey(c) = {})
               /\ (r.op = "returned" /\ LiveKey(c) # {}) => w.op = "upsert"

C9_Witness ==
    \E c \in Calls : /\ pc[c] = "done"
                     /\ Wrote(c)
                     /\ Last(log[c]).op = "upsert"
                     /\ Last(log[c]).arg \notin PkNames(InferSchema(data[c]))

\* C10 as stated: a statement that raises a database error ends the call
\* with success = false and that error, and nothing is executed after it.
C10_AnyErrorAborts ==
    \A c \in Calls : \A i \in DOMAIN log[c] :
        log[c][i].op = "dberror"
        => /\ i = Len(log[c])
           /\ pc[c] = "done"
           /\ ~result[c].success
           /\ result[c].err = log[c][i].arg

\* C10 amended: an error of the create, the explicit reload, the column
\* introspection, an add-column or the write ends the call with success =
\* false and the underlying message, nothing being executed after it; an
\* error of the first existence check is taken as 'table absent' and the call
\* goes on to create, an error of the re-check ends the call with the fixed
\* table-not-created message, and an error of the primary-key lookup is taken
\* as 'no primary key' and the call goes on to a plain insert.
C10_ErrorsAbortExceptLookups ==
    \A c \in Calls :
        /\ \A i \in DOMAIN log[c] :
              LET e == log[c][i] IN
              /\ (e.op \in ErrOps /\ e.arg \in {"create", "reload", "cols", "alter"})
                 => /\ i = Len(log[c])
                    /\ pc[c] = "done"
                    /\ result[c] = Ret(FALSE, "unexpected", e.arg, 0)
              /\ (e.op \in ErrOps /\ e.arg = "exists1") => pc[c] \notin {"exists1", "cols"}
              /\ (e.op \in ErrOps /\ e.arg = "exists1" /\ pc[c] = "done")
                 => \E o \in OutcomeOps : HasEv(log[c], Ev(o, "create"))
              /\ (e.op \in ErrOps /\ e.arg = "exists2")
                 => /\ i = Len(log[c])
                    /\ pc[c] = "done"
                    /\ result[c] = Ret(FALSE, "create_failed", "", 0)
              /\ (e.op \in ErrOps /\ e.arg = "pk")
                 => /\ i + 1 = Len(log[c])
                    /\ log[c][i + 1] = Ev("insert", "")
        /\ (pc[c] = "done" /\ result[c].err = "write")
           => (Wrote(c) /\ result[c] = Ret(FALSE, "unexpected", "write", 0))

C10_Witness ==
    \E c \in Calls : /\ pc[c] = "done"
                     /\ HasEv(log[c], Ev("dberror", "pk"))
                     /\ HasEv(log[c], Ev("dberror", "exists1"))
                     /\ result[c].success

C12_NoPoolAborts ==
    \A c \in Calls : \A i \in DOMAIN log[c] :
        log[c][i].op = "nopool"
        => /\ i = Len(log[c])
           /\ pc[c] = "done"
           /\ ~result[c].success
           /\ ~Wrote(c)

\* the columns the call has sent an add-column statement for
Altered(c) == { log[c][i].arg : i \in { j \in DOMAIN log[c] : log[c][j].op = "alter" } }

\* _compare_and_alter_table returned normally: the call went on to the
\* primary-key lookup without having created the table
Reconciled(c) ==
    /\ \E o \in {"returned", "nopool"} : HasEv(log[c], Ev(o, "cols"))
    /\ pc[c] = "pk" \/ \E o \in OutcomeOps : HasEv(log[c], Ev(o, "pk"))

\* C13: with L the live columns of the table and S the inferred columns, the
\* reconciliation sends an add-column statement only for a column that is not
\* in L, sends none twice, and once it has run through has sent one for each
\* column of S \ L, so that every column of S is then a live column.
C13_ExactDelta ==
    \A c \in Calls :
        LET live == db[ResolveUrl(tenantOf[c])][tableOf[c]].cols
            S == ColNames(InferSchema(data[c]))
        IN  /\ (pc[c] = "alter" /\ qpc[c] = "executing") => StmtArg(c) \notin live
            /\ \A i, j \in DOMAIN log[c] :
                  (log[c][i].op = "alter" /\ log[c][j] = log[c][i]) => i = j
            /\ Altered(c) \subseteq S
            /\ Reconciled(c) => (S \subseteq live /\ Altered(c) \cap (live \ Altered(c)) = {})

\* C14: schema evolution is additive.  A step that changes an existing table
\* is the add-column statement of some call and only adds that one column;
\* an add-column statement is only sent for a column absent from the live
\* column list that call has read; no table loses a column, its key or its
\* existence.
C14_AdditiveOnly ==
    [][/\ \A d \in Databases : \A t \in Tables :
             db[d][t].exists
             => /\ db'[d][t].exists
                /\ db[d][t].cols \subseteq db'[d][t].cols
                /\ db'[d][t].pk = db[d][t].pk
                /\ db'[d][t] # db[d][t]
                   => \E c \in Calls :
                         /\ pc[c] = "alter"
                         /\ qpc[c] = "executing"
                         /\ tableOf[c] = t
                         /\ db'[d][t].cols = db[d][t].cols \cup {StmtArg(c)}
        /\ \A c \in Calls :
             (pc[c] = "alter" /\ qpc[c] = "acquiring" /\ qpc'[c] = "executing")
             => StmtArg(c) \notin existing[c]]_vars

C14_Witness ==
    \E c \in Calls : /\ HasEv(log[c], Ev("returned", "alter"))
                     /\ existing[c] # {}
                     /\ \E o \in Calls \ {c} : pc[o] = "done" /\ result[o].success

\* the fields of the first record whose name is id in some letter case
IdFields(c) == { i \in DOMAIN data[c][1] : Lower(data[c][1][i]) = "id" }
\* the positions of the columns of the built schema that are flagged primary
PrimaryAt(c) ==
    { i \in DOMAIN inferredSchema[c].columns : inferredSchema[c].columns[i].pk }

\* C15: when the first record of a batch has a field named id in whatever
\* letter case and at whatever position, the inferred schema flags that field
\* and no other as primary key and puts it first, in the column list and in
\* the create-table statement.
C15_IdAnyCaseIsKeyFirst ==
    \A c \in Calls :
        (pc[c] = "inferred" /\ data[c] # <<>> /\ Cardinality(IdFields(c)) = 1)
        => LET cols == inferredSchema[c].columns
               k == data[c][1][CHOOSE i \in IdFields(c) : TRUE]
               sql == CreateTableSql(cols)
           IN  /\ inferredSchema[c].built
               /\ cols[1].key = k
               /\ PrimaryAt(c) = {1}
               /\ sql.columns[1].name = "id"
               /\ sql.primaryKey = << "id" >>

\* C16: when the first record of a batch has no field named id, the inferred
\* schema has the record's fields in their order, flags the first of them as
\* primary key and flags no other column.
C16_FirstFieldIsKey ==
    \A c \in Calls :
        (pc[c] = "inferred" /\ data[c] # <<>>
           /\ \A i \in DOMAIN data[c][1] : data[c][1][i] # "id")
        => LET cols == inferredSchema[c].columns
               sample == data[c][1]
           IN  /\ inferredSchema[c].built
               /\ Len(cols) = Len(sample)
               /\ \A i \in DOMAIN sample : cols[i].key = sample[i]
               /\ PrimaryAt(c) = {1}
               /\ CreateTableSql(cols).primaryKey = << Lower(sample[1]) >>

C16_Witness ==
    \E c \in Calls : /\ pc[c] = "inferred"
                     /\ inferredSchema[c].built
                     /\ Len(data[c][1]) = MaxKeys
                     /\ data[c][1][1] = "b"
                     /\ PrimaryAt(c) = {1}

\* C17: every TableSchema that was built has at least one column and at least
\* one column flagged primary; one built from a non-empty list with no column
\* flagged primary has the column (id, uuid, not null, default
\* gen_random_uuid()) before the given columns, flagged primary, and its
\* create-table statement declares id as the primary key.
C17_SyntheticKey ==
    \A c \in Calls :
        LET cols == inferredSchema[c].columns
            sql == CreateTableSql(cols)
        IN  /\ inferredSchema[c].built
               => (Len(cols) >= 1 /\ PrimaryAt(c) # {} /\ Len(sql.primaryKey) >= 1)
            /\ (pc[c] = "routed" /\ data[c] # <<>>)
               => /\ inferredSchema[c].built
                  /\ cols = << SyntheticId >> \o RouteColumns(data[c][1])
                  /\ PrimaryAt(c) = {1}
                  /\ sql.columns[1] = [name |-> "id", type |-> "uuid", notNull |-> TRUE,
                                        default |-> "gen_random_uuid()"]
                  /\ sql.primaryKey = << "id" >>
            /\ (pc[c] \in {"routed", "inferred"} /\ data[c] = <<>>)
               => (~inferredSchema[c].built /\ result[c].msg = "value_error")

C17_Witness ==
    \E c \in Calls : /\ pc[c] = "routed"
                     /\ inferredSchema[c].built
                     /\ Len(inferredSchema[c].columns) = Len(data[c][1]) + 1
                     /\ inferredSchema[c].columns[1].type = "uuid"

\* the write of the call came back without raising, with response.data
Responded(c) == pc[c] = "done" /\ Wrote(c) /\ response[c] # NoResponse

\* C19 as stated: a write that completes without raising makes the call
\* report success with the number of rows the write returned, whatever that
\* number is, zero included.
C19_SuccessForAnyCount ==
    \A c \in Calls :
        Responded(c) => (result[c].success /\ result[c].count = response[c])

\* C19 amended: a write that completes without raising and returns at least
\* one row makes the call report success with exactly the number of rows
\* returned, whether or not it equals the number of records sent; a write
\* that returns no row makes the call report success = false with count 0.
C19_SuccessForReturnedRows ==
    \A c \in Calls :
        Responded(c)
        => /\ response[c] >= 1 => result[c] = Ret(TRUE, "written", "", response[c])
           /\ response[c] = 0 => result[c] = Ret(FALSE, "write_failed", "", 0)

C19_Witness ==
    \E c \in Calls : /\ Responded(c)
                     /\ response[c] >= 1
                     /\ response[c] # Len(data[c])
                     /\ result[c].success
                     /\ result[c].count = response[c]

\* the records of the task's batch and the stored rows that came from a record
Records(c) == { data[c][i] : i \in DOMAIN data[c] }
RowsOf(R, r) == { i \in DOMAIN R : R[i].rec = r }

\* the table holds each record of the batch once, with the batch's values:
\* what one application of the call leaves behind
AppliedOnce(c, R) ==
    \A r \in Records(c) :
        /\ Cardinality(RowsOf(R, r)) = 1
        /\ \A i \in RowsOf(R, r) : R[i] = Row(r, ver[c])

\* C18: an upsert that completes replaces, for every record whose key value
\* is stored, the values of that one row by the incoming ones and adds no
\* row for it, adds one row for every other record and leaves the other rows
\* alone; and a call whose records are already stored with the same values in
\* a keyed table, as after a first application, leaves the table as it is.
C18_UpsertReplaces ==
    [][\A c \in Calls :
         (pc[c] = "pk" /\ pc'[c] = "done")
         => LET e == tenantOf[c]
                n == tableOf[c]
                R == tableRows[e][n]
                R2 == tableRows'[e][n]
                w == WriteEvent(c)
            IN  /\ (response'[c] # NoResponse /\ w.op = "upsert")
                   => /\ \A r \in Records(c) :
                            Stored(R, r)
                            => /\ RowsOf(R2, r) = RowsOf(R, r)
                               /\ \A i \in RowsOf(R2, r) : R2[i] = Row(r, ver[c])
                      /\ Len(R2) = Len(R)
                            + Cardinality({ r \in Records(c) : ~Stored(R, r) })
                      /\ \A i \in DOMAIN R : R[i].rec \notin Records(c) => R2[i] = R[i]
                /\ (db[e][n].pk # {} /\ AppliedOnce(c, R)) => R2 = R]_vars

C18_Witness ==
    \E c, o \in Calls :
        /\ c # o
        /\ pc[c] = "done" /\ result[c].success /\ Last(log[c]).op = "upsert"
        /\ pc[o] = "done" /\ result[o].success
        /\ data[c] = data[o] /\ tableOf[c] = tableOf[o] /\ tenantOf[c] = tenantOf[o]
        /\ ver[o] = 1 /\ ver[c] = 2
        /\ Len(tableRows[tenantOf[c]][tableOf[c]]) = Len(data[c])
        /\ AppliedOnce(c, tableRows[tenantOf[c]][tableOf[c]])

\* C20: in a request with several tables, once the upsert of a table has
\* failed no later table is entered: there is no existence check, DDL or
\* write for it, its table and rows are untouched, and the handler answers
\* the request with the error status as soon as it takes the result.
C20_FailFast ==
    \A c \in Calls : \A o \in Follows(c) :
        (batch /\ pc[c] = "done" /\ ~result[c].success)
        => /\ pc[o] = "queued"
           /\ http[o] = "waiting"
           /\ log[o] = <<>>
           /\ qpc[o] = "none"
           /\ response[o] = NoResponse
           /\ \A d \in Databases :
                 db[d][tableOf[o]] = NoTable /\ tableRows[d][tableOf[o]] = <<>>
           /\ http[c] \in {"running", "500"}

C20_Witness ==
    \E c \in Calls : \E o \in Follows(c) :
        /\ batch
        /\ pc[c] = "done"
        /\ Wrote(c)
        /\ ~result[c].success
        /\ http[c] = "500"
        /\ data[o] # <<>>
        /\ pc[o] = "queued"

\* the first existence check of the call reported the table absent
FoundAbsent(c) == \E o \in ErrOps : HasEv(log[c], Ev(o, "exists1"))
\* the create-table statement of the call was carried out
CreateReturned(c) == HasEv(log[c], Ev("returned", "create"))

\* C21: two concurrent calls for one tenant and one absent table are not kept
\* apart: each call that found the table absent goes on to its own
\* create-if-absent statement.  No create statement ends in a duplicate
\* error or fails the call once it was carried out; the one that finds the
\* table absent makes it from its own schema, one that finds it present
\* leaves it as it is, and the table exists after either.
C21_CreateIfAbsent ==
    /\ [](\A c \in Calls :
            /\ ~HasEv(log[c], Ev("duplicate", "create"))
            /\ FoundAbsent(c)
               => (pc[c] = "create" \/ \E o \in OutcomeOps : HasEv(log[c], Ev(o, "create")))
            /\ CreateReturned(c)
               => /\ db[ResolveUrl(tenantOf[c])][tableOf[c]].exists
                  /\ result[c].err # "create")
    /\ [][\A c \in Calls :
            (pc[c] = "create" /\ qpc[c] = "executing" /\ qpc'[c] = "notifying")
            => LET d == poolUrl[qpool[c]]
                   n == tableOf[c]
               IN  db' = [db EXCEPT ![d][n] =
                            IF @.exists THEN @
                            ELSE Created(NoTable, InferSchema(data[c]))]]_vars

C21_Witness ==
    /\ tenantOf["c1"] = tenantOf["c2"]
    /\ data["c1"] # data["c2"]
    /\ \A c \in Calls : /\ pc[c] = "done"
                         /\ HasEv(log[c], Ev("undefined", "exists1"))
                         /\ CreateReturned(c)
    /\ \E c \in Calls : Wrote(c) /\ result[c].success

\* the column type the type mapping gives a value of the kind ("" for a value
\* it does not speak of)
MappedTypes(kind) ==
    CASE kind = "bool" -> {"boolean"}
      [] kind = "int" -> {"bigint"}
      [] kind = "float" -> {"real", "decimal"}
      [] kind = "datestr" -> {"timestamp"}
      [] kind \in {"str", "dashstr", "dict"} -> {"text"}
      [] OTHER -> {"boolean", "bigint", "integer", "real", "decimal", "timestamp",
                   "varchar", "text"}

\* C22: every field of the sample record gets its column type by the
\* priority boolean value -> boolean (before integer), integer -> bigint,
\* float -> real or decimal, string of ten or more characters with - or /
\* that parses as a date -> timestamp, any other string -> text, nested
\* value -> text.
C22_TypeByPriority ==
    \A c \in Calls :
        (pc[c] \in {"inferred", "routed"} /\ inferredSchema[c].built)
        => \A i \in DOMAIN inferredSchema[c].columns :
              LET col == inferredSchema[c].columns[i]
              IN  col.key # "" => col.type \in MappedTypes(kinds[col.key])

\* the accepted requests of the address at or after time t and before t + w
AcceptedIn(ip, t, w) ==
    Cardinality({ j \in DOMAIN accepted[ip] :
                    accepted[ip][j] >= t /\ accepted[ip][j] < t + w })
\* the accepted requests of the address still inside the window at this time
StillInWindow(ip) ==
    Cardinality({ j \in DOMAIN accepted[ip] : accepted[ip][j] > now - window_seconds })

\* among the accepted requests of every address at most max_requests fall
\* within any stretch of window_seconds seconds
WindowRespected ==
    \A ip \in ClientIps : \A i \in DOMAIN accepted[ip] :
        AcceptedIn(ip, accepted[ip][i], window_seconds) <= max_requests

\* the step handles a request on one of the given paths as the limiter
\* should: refused with status 429 and not counted when max_requests accepted
\* requests of its address are still inside the window, accepted and counted
\* otherwise; the other addresses' counts are untouched
LimitedStep(limitedPaths) ==
    (now' = now)
    => LET r == lastRequest'
       IN  /\ (r.path \in limitedPaths /\ StillInWindow(r.ip) >= max_requests)
              => (r.status = 429 /\ accepted' = accepted)
           /\ (r.path \in limitedPaths /\ StillInWindow(r.ip) < max_requests)
              => (r.status = 200 /\ accepted' = [accepted EXCEPT ![r.ip] = Append(@, now)])
           /\ \A o \in ClientIps \ {r.ip} :
                 requests'[o] = requests[o] /\ accepted'[o] = accepted[o]

\* C23 as stated: per client address at most max_requests accepted requests
\* fall within any window; a request on a path under /api/ that arrives when
\* max_requests accepted requests of its address are inside the window is
\* refused with status 429; addresses do not affect each other.
C23_LimitOnApiPaths ==
    /\ []WindowRespected
    /\ [][LimitedStep({ "/api/data", "/api/health" })]_vars

\* C23 amended: the same for the paths under /api/ other than /api/health;
\* a request to /api/health or to a path outside /api/ is never refused and
\* never counted.
C23_LimitPerClient ==
    /\ []WindowRespected
    /\ [][/\ LimitedStep({ "/api/data" })
          /\ (now' = now /\ lastRequest'.path # "/api/data")
             => (lastRequest'.status = 200 /\ accepted' = accepted
                   /\ requests' = requests)]_vars

C23_Witness ==
    /\ lastRequest = [ip |-> "ip1", path |-> "/api/data", status |-> 429]
    /\ StillInWindow("ip1") = max_requests
    /\ Len(accepted["ip1"]) > max_requests
    /\ Len(accepted["ip2"]) = 1
    /\ accepted["ip2"][1] = now

\* C24: a request for a company that has no stored configuration, or whose
\* configuration lacks DB_URL or DB_TOKEN, is answered 404 whatever its
\* payload, the empty one included, as soon as it is taken up: no pool is
\* resolved, no existence check, DDL or write is issued and upsert_data is
\* not called.
C24_NoConfigIs404 ==
    \A c \in Calls :
        (http[c] # "none" /\ pc[c] # "queued" /\ cfg[tenantOf[c]] # "full")
        => /\ http[c] = "404"
           /\ pc[c] = "aborted"
           /\ log[c] = <<>>
           /\ qpc[c] = "none"
           /\ qpool[c] = NoPool
           /\ response[c] = NoResponse
           /\ result[c] = NoResult
           /\ poolUrl = <<>>
           /\ \A d \in Databases, n \in Tables : tableRows[d][n] = <<>>

C24_Witness ==
    /\ ~batch
    /\ databaseUrl
    /\ cfg["t1"] = "notoken"
    /\ \A c \in Calls : http[c] = "404" /\ data[c] = <<>>

\* a data-definition statement: its first word is create, alter or drop in
\* whatever letter case
LeadingDdlWord(t) == LowerWord(t.word) \in {"create", "alter", "drop"}

\* the outcome events that follow the statement sent at position i of the log
OutcomesAfter(c, i) ==
    { j \in DOMAIN log[c] :
        j > i /\ log[c][j].op \in OutcomeOps /\ log[c][j].arg = log[c][i].op }
\* the statement sent at position i has come back, and has come back
\* without raising
StmtFinished(c, i) ==
    OutcomesAfter(c, i) # {} \/ qpc[c] \in {"notifying", "releasing", "returned", "raised"}
StmtCompleted(c, i) ==
    IF OutcomesAfter(c, i) # {}
    THEN \E j \in OutcomesAfter(c, i) :
            /\ \A k \in OutcomesAfter(c, i) : j <= k
            /\ log[c][j].op = "returned"
    ELSE qpc[c] \in {"notifying", "returned"} \/ (qpc[c] = "releasing" /\ qerr[c] = "")

\* C25: the query executor sends the reload notification exactly for the
\* statements that are data definition (leading create, alter or drop in any
\* letter case) and completed: right after the statement, on the connection
\* that ran it and before its release; never for a data statement, never
\* when the statement raised; and a notification that fails leaves the call
\* returning normally.
C25_NotifyIffDdlDone ==
    \A c \in Calls : \A i \in DOMAIN log[c] :
        /\ (IsStmt(log[c][i]) /\ StmtFinished(c, i))
           => /\ log[c][i - 1].op = "acquire"
              /\ (i < Len(log[c]) /\ log[c][i + 1] = Ev("reload", "auto"))
                 <=> (LeadingDdlWord(QueryText(log[c][i].op)) /\ StmtCompleted(c, i))
        /\ log[c][i] = Ev("reload", "auto")
           => /\ i > 1
              /\ IsStmt(log[c][i - 1])
              /\ i < Len(log[c]) => log[c][i + 1].op \in {"reload_error", "release"}
        /\ log[c][i] = Ev("reload_error", "auto")
           => /\ log[c][i - 1] = Ev("reload", "auto")
              /\ i < Len(log[c]) => log[c][i + 1].op = "release"
              /\ StmtCompleted(c, i - 2)

C25_Witness ==
    \E c \in Calls :
        /\ pc[c] = "done"
        /\ result[c].success
        /\ HasEv(log[c], Ev("reload_error", "auto"))
        /\ HasEv(log[c], Ev("returned", "create"))
        /\ HasEv(log[c], Ev("returned", "reload"))

\* the call sent an add-column statement for the column and the statement
\* came back; it came back without an error
AlterDone(c, col) ==
    /\ HasEv(log[c], Ev("alter", col))
    /\ \E o \in OutcomeOps : HasEv(log[c], Ev(o, "alter"))
AlterReturned(c, col) == AlterDone(c, col) /\ HasEv(log[c], Ev("returned", "alter"))

\* C26: add-column statements of concurrent calls are not deduplicated.  A
\* call sends the statement for every inferred column absent from the list
\* it read, whatever another call has added since; when two calls on one
\* table have both sent it for the same column, only one statement goes
\* through, and the call of the other ends with success = false, that error
\* and no write.
C26_DuplicateAddColumn ==
    \A c \in Calls :
        /\ \A i \in DOMAIN log[c] :
              (log[c][i].op = "alter" /\ log[c][i].arg # "auto")
              => /\ log[c][i].arg \notin existing[c]
                 /\ log[c][i].arg \in ColNames(InferSchema(data[c]))
        /\ (pc[c] \in {"pk", "done"} /\ HasEv(log[c], Ev("returned", "cols"))
              /\ result[c].err \notin {"cols", "alter"})
           => ColNames(InferSchema(data[c])) \ existing[c] \subseteq Altered(c)
        /\ \A o \in Calls \ {c} : \A col \in Altered(c) \cap Altered(o) :
              (tenantOf[o] = tenantOf[c] /\ tableOf[o] = tableOf[c]
                 /\ AlterDone(c, col) /\ AlterDone(o, col))
              => /\ ~(AlterReturned(c, col) /\ AlterReturned(o, col))
                 /\ ~AlterReturned(c, col)
                    => /\ pc[c] = "done"
                       /\ result[c] = Ret(FALSE, "unexpected", "alter", 0)
                       /\ ~Wrote(c)

C26_Witness ==
    \E c, o \in Calls :
        /\ c # o
        /\ tenantOf[c] = tenantOf[o]
        /\ existing[c] = existing[o]
        /\ existing[c] # {}
        /\ \E col \in Altered(c) \cap Altered(o) :
              /\ AlterReturned(c, col)
              /\ HasEv(log[o], Ev("duplicate", "alter"))
        /\ pc[c] = "done" /\ result[c].success
        /\ pc[o] = "done" /\ ~result[o].success /\ ~Wrote(o)

\* the column names the fields of the first record of the batch stand for
FirstRecordNames(c) ==
    IF data[c] = <<>> THEN {}
    ELSE { Lower(data[c][1][i]) : i \in DOMAIN data[c][1] }

\* C27: the inferred schema is a function of the first record alone.  Two
\* batches with the same first record get the same schema (columns, types
\* and key) whatever their later records are; every column of a schema comes
\* from a field of the first record; and no add-column statement and no
\* column of a table comes from a field that only later records have.
C27_FirstRecordOnly ==
    /\ [](\A c \in Calls :
            /\ \A o \in Calls :
                  (inferredSchema[c].built /\ inferredSchema[o].built
                     /\ data[c][1] = data[o][1])
                  => inferredSchema[c] = inferredSchema[o]
            /\ inferredSchema[c].built
               => /\ \A i \in DOMAIN inferredSchema[c].columns :
                        LET col == inferredSchema[c].columns[i]
                        IN  HasField(data[c][1], col.key)
                  /\ ColNames(inferredSchema[c].columns) \subseteq FirstRecordNames(c)
            /\ Altered(c) \subseteq FirstRecordNames(c))
    /\ [][\A d \in Databases : \A n \in Tables :
            db'[d][n].cols \ db[d][n].cols
              \subseteq UNION { FirstRecordNames(c) : c \in { o \in Calls : tableOf[o] = n } }]_vars

C27_Witness ==
    \E c, o \in Calls :
        /\ data[c] = << Rec1 >>
        /\ data[o] = << Rec1, Rec4 >>
        /\ pc[c] = "done" /\ pc[o] = "done"
        /\ inferredSchema[c].built
        /\ inferredSchema[o] = inferredSchema[c]
        /\ HasEv(log[o], Ev("returned", "cols"))
        /\ "b" \notin db[tenantOf[o]][tableOf[o]].cols
        /\ ~result[o].success

\* the triple a call returned is well formed: a flag, a message and a count
\* that is 0 for a failure and at least 1 for a success on a non-empty batch
TripleOk(c) ==
    /\ result[c] # NoResult
    /\ result[c].success \in BOOLEAN
    /\ result[c].count >= 0
    /\ ~result[c].success => result[c].count = 0
    /\ (result[c].success /\ data[c] # <<>>) => result[c].count >= 1

\* C28: upsert_data never raises.  Every call that starts comes to its end
\* by returning a triple, also after a statement or the write raised, and
\* in the triple the count is 0 when success is false and at least 1 when
\* success is true and the batch was not empty.
C28_AlwaysReturnsTriple ==
    /\ [](\A c \in Calls :
            /\ pc[c] = "done" => TripleOk(c)
            /\ pc[c] # "done" => result[c] = NoResult)
    /\ \A c \in Calls : (pc[c] = "idle") ~> (pc[c] = "done" /\ TripleOk(c))

C28_Witness ==
    \E c \in Calls :
        /\ pc[c] = "done"
        /\ data[c] # <<>>
        /\ HasEv(log[c], Ev("undefined", "exists1"))
        /\ result[c] = Ret(FALSE, "unexpected", "write", 0)

\* the request found the table absent and its create-table statement went
\* through: sent by the handler, or by upsert_data
CreatedByHandler(c) ==
    HasEv(log[c], Ev("returned", "h_exists")) /\ HasEv(log[c], Ev("returned", "h_create"))
CreatedByUpsert(c) ==
    HasEv(log[c], Ev("undefined", "exists1")) /\ HasEv(log[c], Ev("returned", "create"))
\* after the create-table statement at position i the log has the settle
\* delay, then a re-check that found the table, then the write
SettledAfter(c, i) ==
    \E j, k, w \in DOMAIN log[c] :
        /\ i < j /\ j < k /\ k < w
        /\ log[c][j] = Ev("sleep", "")
        /\ log[c][k] = Ev("returned", "exists2")
        /\ log[c][w].op \in WriteOps

\* C29: when a request has created a table that did not exist and writes to
\* it, the write comes after the settle delay and a successful existence
\* re-check, both after the create-table statement.
C29_SettleBeforeWrite ==
    \A c \in Calls :
        (Wrote(c) /\ (CreatedByHandler(c) \/ CreatedByUpsert(c)))
        => \A i \in DOMAIN log[c] :
              log[c][i] \in { Ev("create", ""), Ev("h_create", "") } => SettledAfter(c, i)

\* the database the pooled connection of the task's current statement is
\* connected to, and the database the task's REST client writes to
StatementDb(c) == poolUrl[qpool[c]]
WriteDb(c) == tenantOf[c]

\* C30: the database that runs a call's existence check, DDL and primary-key
\* lookup is the database that receives its write, the tenant's own, and
\* calls for two distinct tenants never run statements on one database,
\* under every configuration, a globally set DATABASE_URL included.
C30_OwnDatabaseOnly ==
    /\ \A c \in Calls : qpool[c] # NoPool => StatementDb(c) = WriteDb(c)
    /\ \A c, o \in Calls :
          (tenantOf[c] # tenantOf[o] /\ qpool[c] # NoPool)
          => /\ StatementDb(c) # WriteDb(o)
             /\ qpool[o] # NoPool => StatementDb(c) # StatementDb(o)

====
